---- MODULE Spec2Model ----
(***************************************************************************)
(* AnimalShelter (enhanced): a repository wrapper around a MongoDB         *)
(* collection of animal records plus a best-effort audit collection.       *)
(* Source: Artififact/cs340-animalshelter/enhanced/AnimalShelter_enhanced.py *)
(*                                                                         *)
(* A document is a function from field names to values.  A Python argument *)
(* is a tagged value [kind, val]: kind "dict" (val is the mapping),        *)
(* "none" (None) or "other" (any non-dict value, e.g. a string).           *)
(***************************************************************************)
EXTENDS Integers, Sequences, FiniteSets, TLC

VARIABLES
    client,       \* self.client: "none" while no handle exists, "connected" once __init__ returned
    collection,   \* self.collection: sequence of documents in natural order
    audits,       \* self.audits: sequence of audit documents
    now,          \* the wall clock read by _utcnow()
    nextId,       \* the next _id the database assigns on insert
    pc,           \* position of the caller: "idle" or "returned"
    call,         \* the call that has just returned (op and arguments)
    result,       \* what that call returned or raised, and the collaborator calls it made
    pre,          \* collection and audits as they were when that call started
    rt            \* observer of a create/read/delete/read round trip

vars == <<client, collection, audits, now, nextId, pc, call, result, pre, rt>>

---------------------------------------------------------------------------
(* Bounds of the model *)

MaxId == 2        \* documents ever inserted into the primary collection
MaxAudits == 1    \* audit documents ever inserted
MaxClock == 1     \* last instant of the wall clock (the clock starts at 0)

---------------------------------------------------------------------------
(* Python values *)

EmptyDict == [k \in {} |-> 0]
Dict(f) == [kind |-> "dict", val |-> f]
None == [kind |-> "none", val |-> EmptyDict]
NotADict == [kind |-> "other", val |-> EmptyDict]

\* pymongo.ASCENDING and pymongo.DESCENDING
ASCENDING == 1
DESCENDING == -1

\* dict.update / {**f, **g}: the keys of g overwrite those of f
Merge(f, g) ==
    [k \in (DOMAIN f) \cup (DOMAIN g) |-> IF k \in DOMAIN g THEN g[k] ELSE f[k]]

\* doc[key] = value
SetKey(f, key, value) == Merge(f, [k \in {key} |-> value])

Raise(exc) == [raised |-> TRUE, exc |-> exc, val |-> EmptyDict]
Return(v) == [raised |-> FALSE, exc |-> "", val |-> v]

\* AnimalShelter._utcnow
_utcnow == now

\* _require_dict without its emptiness check
_require_dict_lax(value, allow_empty) ==
    IF value.kind # "dict" THEN Raise("ValueError") ELSE Return(value.val)

\* AnimalShelter._require_dict
_require_dict(value, allow_empty) ==
    IF value.kind # "dict"
    THEN Raise("ValueError")
    ELSE IF ~allow_empty /\ value.val = EmptyDict
         THEN Raise("ValueError")
         ELSE Return(value.val)

\* AnimalShelter._validate_required_fields: the missing fields
RequiredFields == {"animal_id", "animal_type", "breed"}
Missing(data, required) == {f \in required : f \notin DOMAIN data}

\* _validate_required_fields rejecting only a record that lacks every required field
_validate_required_fields_all(data, required) ==
    IF {f \in required : f \notin DOMAIN data} = required
    THEN Raise("ValueError")
    ELSE Return(data)
_validate_required_fields(data, required) ==
    IF Missing(data, required) # {} THEN Raise("ValueError") ELSE Return(data)

---------------------------------------------------------------------------
(* The database collaborator (pymongo Collection), as the handlers use it *)

\* An equality filter: every key of the filter is in the document with that value
Matches(doc, q) == \A k \in DOMAIN q : k \in DOMAIN doc /\ doc[k] = q[k]

Matching(coll, q) == SelectSeq(coll, LAMBDA d : Matches(d, q))

\* Collection.insert_one: the database assigns the _id
insert_one(coll, doc, id) ==
    [collection |-> Append(coll, SetKey(doc, "_id", id)), inserted_id |-> id]

\* update_many replacing each matching document by nv instead of merging into it
update_many_replace(coll, q, nv, upsert, id) ==
    LET replaced == [i \in 1..Len(coll) |->
                        IF Matches(coll[i], q) THEN SetKey(nv, "_id", coll[i]["_id"])
                        ELSE coll[i]]
        matched == Len(SelectSeq(coll, LAMBDA d : Matches(d, q)))
    IN  IF matched = 0 /\ upsert
        THEN [collection |-> Append(coll, SetKey(Merge(q, nv), "_id", id)),
              matched_count |-> 0, modified_count |-> 0, upserted_id |-> id]
        ELSE [collection |-> replaced,
              matched_count |-> matched, modified_count |-> matched, upserted_id |-> 0]

\* Collection.update_many(q, {"$set": nv}, upsert): merge nv into every match;
\* with upsert and no match, insert the filter's fields merged with nv.
\* upserted_id 0 stands for None.
update_many(coll, q, nv, upsert, id) ==
    LET merged == [i \in 1..Len(coll) |->
                      IF Matches(coll[i], q) THEN Merge(coll[i], nv) ELSE coll[i]]
        matched == Len(Matching(coll, q))
        modified == Cardinality({i \in 1..Len(coll) : merged[i] # coll[i]})
    IN  IF matched = 0 /\ upsert
        THEN [collection |-> Append(coll, SetKey(Merge(q, nv), "_id", id)),
              matched_count |-> 0, modified_count |-> 0, upserted_id |-> id]
        ELSE [collection |-> merged,
              matched_count |-> matched, modified_count |-> modified, upserted_id |-> 0]

\* delete_many with the filter inverted: the documents that do not match are removed
delete_many_inverted(coll, q) ==
    [collection |-> SelectSeq(coll, LAMBDA d : Matches(d, q)),
     deleted_count |-> Len(SelectSeq(coll, LAMBDA d : ~Matches(d, q)))]

\* Collection.delete_many
delete_many(coll, q) ==
    [collection |-> SelectSeq(coll, LAMBDA d : ~Matches(d, q)),
     deleted_count |-> Len(Matching(coll, q))]

\* An inclusion projection keeps _id and the named fields; an empty one keeps all
Project(doc, projection) ==
    IF projection = EmptyDict
    THEN doc
    ELSE [k \in (DOMAIN doc) \cap ((DOMAIN projection) \cup {"_id"}) |-> doc[k]]

\* Collection.find(q) and Collection.find(q, projection), in natural order
find(coll, q, projection) ==
    LET m == Matching(coll, q)
    IN  [i \in 1..Len(m) |-> Project(m[i], projection)]

\* Cursor.sort on a timestamp field: a missing field sorts as null, before any value.
\* The order among equal keys is the server's choice: every sorted arrangement.
SortKey(doc, field) == IF field \in DOMAIN doc THEN doc[field] ELSE -1
sort(docs, field, order) ==
    LET n == Len(docs)
        arranged == {[i \in 1..n |-> docs[p[i]]] : p \in Permutations(1..n)}
    IN  {s \in arranged :
            \A i \in 1..n : \A j \in 1..n :
                i < j => IF order = DESCENDING
                         THEN SortKey(s[i], field) >= SortKey(s[j], field)
                         ELSE SortKey(s[i], field) <= SortKey(s[j], field)}

\* Cursor.limit off by one
limit_cursor_plus_one(docs, n) == SubSeq(docs, 1, IF n + 1 < Len(docs) THEN n + 1 ELSE Len(docs))

\* Cursor.limit
limit_cursor(docs, n) == SubSeq(docs, 1, IF n < Len(docs) THEN n ELSE Len(docs))

---------------------------------------------------------------------------
(* Handlers.  Each returns the state it leaves and its result:             *)
(* status "ok" or the exception raised, out the returned value, calls the  *)
(* collaborator calls made in order, log the messages logged in order.     *)
(* fault is what the database does during the call: "none", "db" (the      *)
(* primary collection's call raises PyMongoError) or "audit" (the audit    *)
(* collection's insert raises).                                            *)

Faults == {"none", "db", "audit"}

Outcome(coll, auds, id, status, out, calls, log) ==
    [collection |-> coll, audits |-> auds, nextId |-> id,
     result |-> [status |-> status, out |-> out, calls |-> calls, log |-> log]]

\* except (ValueError, PyMongoError): log and re-raise; nothing was written
Fail(exc, calls, log) == Outcome(collection, audits, nextId, exc, EmptyDict, calls, log)

\* _audit letting the insert's exception escape
_audit_raising(action, details, fault) ==
    IF fault = "audit"
    THEN [audits |-> audits, raised |-> TRUE, log |-> <<>>]
    ELSE [audits |-> Append(audits, [action |-> action, details |-> details, ts |-> _utcnow]),
          raised |-> FALSE, log |-> <<>>]

_audit_overwriting(action, details, fault) ==
    IF fault = "audit"
    THEN [audits |-> audits, raised |-> FALSE, log |-> <<"audit_failed">>]
    ELSE [audits |-> <<[action |-> action, details |-> details, ts |-> _utcnow]>>,
          raised |-> FALSE, log |-> <<>>]

\* AnimalShelter._audit: best effort, the insert's exception is caught and logged
_audit(action, details, fault) ==
    IF fault = "audit"
    THEN [audits |-> audits, raised |-> FALSE, log |-> <<"audit_failed">>]
    ELSE [audits |-> Append(audits, [action |-> action, details |-> details, ts |-> _utcnow]),
          raised |-> FALSE, log |-> <<>>]

\* AnimalShelter.create
create(data, actor, fault) ==
    LET d == _require_dict(data, FALSE)
        v == _validate_required_fields(d.val, RequiredFields)
        doc == SetKey(d.val, "created_timestamp", _utcnow)
        res == insert_one(collection, doc, nextId)
        out == [ok |-> TRUE, inserted_id |-> ToString(res.inserted_id)]
        a == _audit("CREATE", [actor |-> actor, inserted_id |-> out.inserted_id], fault)
        calls == <<"insert_one", "audits.insert_one">>
    IN  IF d.raised THEN Fail(d.exc, <<>>, <<"create_failed">>)
        ELSE IF v.raised THEN Fail(v.exc, <<>>, <<"create_failed">>)
        ELSE IF fault = "db" THEN Fail("PyMongoError", <<"insert_one">>, <<"create_failed">>)
        ELSE IF a.raised
             THEN Outcome(res.collection, a.audits, nextId + 1, "PyMongoError", EmptyDict,
                          calls, a.log \o <<"create_failed">>)
             ELSE Outcome(res.collection, a.audits, nextId + 1, "ok", out, calls, a.log)

\* read writing an audit entry as the mutating handlers do
read_audited(query, projection, limit, sort_field, sort_order, fault) ==
    LET q == IF query.kind = "none" THEN Return(EmptyDict) ELSE _require_dict(query, TRUE)
        cur == find(collection, q.val, EmptyDict)
        a == _audit("READ", [actor |-> "None", count |-> Len(cur)], fault)
    IN  IF q.raised THEN {Fail(q.exc, <<>>, <<"read_failed">>)}
        ELSE {Outcome(collection, a.audits, nextId, "ok", [docs |-> cur],
                      <<"find", "audits.insert_one">>, <<"read">>)}

\* AnimalShelter.read: the possible results (the order among equal sort keys is open)
read(query, projection, limit, sort_field, sort_order, fault) ==
    LET q == IF query.kind = "none" THEN Return(EmptyDict) ELSE _require_dict(query, TRUE)
        cur == IF projection.kind = "dict"
               THEN find(collection, q.val, projection.val)
               ELSE find(collection, q.val, EmptyDict)
        sorted == IF sort_field # "" THEN sort(cur, sort_field, sort_order) ELSE {cur}
        limited == {IF limit # 0 /\ limit > 0 THEN limit_cursor(s, limit) ELSE s : s \in sorted}
    IN  IF q.raised THEN {Fail(q.exc, <<>>, <<"read_failed">>)}
        ELSE IF fault = "db" THEN {Fail("PyMongoError", <<"find">>, <<"read_failed">>)}
        ELSE {Outcome(collection, audits, nextId, "ok", [docs |-> results], <<"find">>,
                      <<"read">>) : results \in limited}

\* AnimalShelter.update
update(query, new_values, upsert, actor, fault) ==
    LET q == _require_dict(query, FALSE)
        nv0 == _require_dict(new_values, FALSE)
        nv == SetKey(nv0.val, "last_modified_timestamp", _utcnow)
        res == update_many(collection, q.val, nv, upsert, nextId)
        out == [ok |-> TRUE, matched |-> res.matched_count, modified |-> res.modified_count,
                upserted_id |-> IF res.upserted_id # 0 THEN ToString(res.upserted_id) ELSE "None"]
        a == _audit("UPDATE", [actor |-> actor, matched |-> out.matched,
                               modified |-> out.modified], fault)
        id == IF res.upserted_id # 0 THEN nextId + 1 ELSE nextId
        calls == <<"update_many", "audits.insert_one">>
    IN  IF q.raised THEN Fail(q.exc, <<>>, <<"update_failed">>)
        ELSE IF nv0.raised THEN Fail(nv0.exc, <<>>, <<"update_failed">>)
        ELSE IF fault = "db" THEN Fail("PyMongoError", <<"update_many">>, <<"update_failed">>)
        ELSE IF a.raised
             THEN Outcome(res.collection, a.audits, id, "PyMongoError", EmptyDict,
                          calls, a.log \o <<"update_failed">>)
             ELSE Outcome(res.collection, a.audits, id, "ok", out, calls, a.log)

\* delete's validation without the guard against an empty filter
delete_query_unguarded(query, confirm_delete) == _require_dict(query, TRUE)

\* AnimalShelter.delete, its validation: the filter, or the ValueError raised
delete_query(query, confirm_delete) ==
    LET q == _require_dict(query, FALSE)
    IN  IF q.raised THEN q
        ELSE IF q.val = EmptyDict /\ confirm_delete THEN Raise("ValueError")
        ELSE q

\* AnimalShelter.delete
delete(query, actor, confirm_delete, fault) ==
    LET q == delete_query(query, confirm_delete)
        res == delete_many(collection, q.val)
        out == [ok |-> TRUE, deleted |-> res.deleted_count]
        a == _audit("DELETE", [actor |-> actor, deleted |-> out.deleted], fault)
        calls == <<"delete_many", "audits.insert_one">>
    IN  IF q.raised THEN Fail(q.exc, <<>>, <<"delete_failed">>)
        ELSE IF fault = "db" THEN Fail("PyMongoError", <<"delete_many">>, <<"delete_failed">>)
        ELSE IF a.raised
             THEN Outcome(res.collection, a.audits, nextId, "PyMongoError", EmptyDict,
                          calls, a.log \o <<"delete_failed">>)
             ELSE Outcome(res.collection, a.audits, nextId, "ok", out, calls, a.log)

\* dict.get("created_timestamp") of the first document of a cursor, {} when the
\* cursor is empty: has is FALSE for Python's None
GetCreatedTimestamp(docs) ==
    IF docs # <<>> /\ "created_timestamp" \in DOMAIN docs[1]
    THEN [has |-> TRUE, ts |-> docs[1].created_timestamp]
    ELSE [has |-> FALSE, ts |-> 0]

\* AnimalShelter.stats: the possible results
stats(fault) ==
    LET count == Len(collection)
        cur == find(collection, EmptyDict, [created_timestamp |-> 1])
        latest == {limit_cursor(s, 1) : s \in sort(cur, "created_timestamp", DESCENDING)}
    IN  IF fault = "db"
        THEN {Fail("PyMongoError", <<"estimated_document_count">>, <<"stats_failed">>)}
        ELSE {Outcome(collection, audits, nextId, "ok",
                      [count |-> count, latest_created_timestamp |-> GetCreatedTimestamp(l)],
                      <<"estimated_document_count", "find">>, <<>>) : l \in latest}

\* The indexes _ensure_indexes asks for, in the order of its create_index calls
Indexes == <<"animal_id", "created_timestamp", "last_modified_timestamp">>

\* What can fail while the handle is built: the MongoClient constructor, the ping
ConnectFaults == {"none", "client", "ping"}

\* AnimalShelter._ensure_indexes: the create_index call number index_fault raises
\* (0: none does); the exception is caught and logged
_ensure_indexes(index_fault) ==
    IF index_fault = 0
    THEN [calls |-> [i \in 1..Len(Indexes) |-> "create_index"], raised |-> FALSE, log |-> <<>>]
    ELSE [calls |-> [i \in 1..index_fault |-> "create_index"], raised |-> FALSE,
          log |-> <<"index_creation_failed">>]

ConnectOutcome(handle, status, calls, log) ==
    [client |-> handle,
     result |-> [status |-> status, out |-> EmptyDict, calls |-> calls, log |-> log]]

connect_indexes_first(ensure_indexes, fault, index_fault) ==
    LET ix == _ensure_indexes(index_fault)
    IN  IF fault = "client"
        THEN ConnectOutcome("none", "PyMongoError", <<"MongoClient">>, <<"mongo_connect_error">>)
        ELSE IF fault = "ping"
        THEN ConnectOutcome("none", "PyMongoError",
                            <<"MongoClient">> \o (IF ensure_indexes THEN ix.calls ELSE <<>>)
                                \o <<"ping">>,
                            (IF ensure_indexes THEN ix.log ELSE <<>>) \o <<"mongo_connect_error">>)
        ELSE ConnectOutcome("connected", "ok",
                            <<"MongoClient">> \o (IF ensure_indexes THEN ix.calls ELSE <<>>)
                                \o <<"ping">>,
                            (IF ensure_indexes THEN ix.log ELSE <<>>) \o <<"connected">>)

\* AnimalShelter.__init__
connect(ensure_indexes, fault, index_fault) ==
    LET ix == _ensure_indexes(index_fault)
    IN  IF fault = "client"
        THEN ConnectOutcome("none", "PyMongoError", <<"MongoClient">>, <<"mongo_connect_error">>)
        ELSE IF fault = "ping"
        THEN ConnectOutcome("none", "PyMongoError", <<"MongoClient", "ping">>,
                            <<"mongo_connect_error">>)
        ELSE IF ~ensure_indexes
        THEN ConnectOutcome("connected", "ok", <<"MongoClient", "ping">>, <<"connected">>)
        ELSE IF ix.raised
        THEN ConnectOutcome("none", "PyMongoError", <<"MongoClient", "ping">> \o ix.calls,
                            ix.log \o <<"mongo_connect_error">>)
        ELSE ConnectOutcome("connected", "ok", <<"MongoClient", "ping">> \o ix.calls,
                            ix.log \o <<"connected">>)

\* AnimalShelter.close: an exception of client.close() is swallowed
close(fault) ==
    ConnectOutcome("none", "ok", <<"client.close">>, <<>>)

---------------------------------------------------------------------------
(* Arguments the caller passes *)

AnimalIds == {"A1", "A2"}
Animal(a) == [animal_id |-> a, animal_type |-> "Dog", breed |-> "Lab"]

\* data: valid records, one with a caller-supplied created_timestamp, records
\* lacking one required field or all of them, and malformed arguments
DataInputs ==
    {NotADict, Dict(EmptyDict), Dict([name |-> "Rex"])}
        \cup {Dict(Animal(a)) : a \in AnimalIds}
        \cup {Dict(SetKey(Animal("A1"), "created_timestamp", 0))}
        \cup {Dict([k \in RequiredFields \ {f} |-> Animal("A1")[k]]) : f \in RequiredFields}

ById(a) == Dict([animal_id |-> a])
QueryInputs == {NotADict, Dict(EmptyDict)} \cup {ById(a) : a \in AnimalIds}

NewValuesInputs ==
    {NotADict, Dict(EmptyDict), Dict([animal_id |-> "A2"]), Dict([created_timestamp |-> 0])}

ProjectionInputs == {None, Dict([animal_id |-> 1])}
LimitInputs == {-1, 0, 1}
SortInputs ==
    {[field |-> "", order |-> ASCENDING]}
        \cup {[field |-> "created_timestamp", order |-> o] : o \in {ASCENDING, DESCENDING}}
Actors == {"staff"}

---------------------------------------------------------------------------
(* The caller: one call at a time; a call returns before the next is made *)

NoCall == [op |-> "none"]
NoResult == [status |-> "none", out |-> EmptyDict, calls |-> <<>>, log |-> <<>>]
NoPre == [collection |-> <<>>, audits |-> <<>>]
RtIdle == [stage |-> 0, x |-> "", before |-> <<>>]

\* The round trip of a fresh animal_id x, observed from the calls made:
\* stage 1 after create of a valid record with animal_id x when no stored record
\* has it, 2 after read({animal_id: x}), 3 after delete({animal_id: x}),
\* 4 after another read({animal_id: x}); any other call ends the observation.
IsReadOf(c, x) ==
    /\ c.op = "read"
    /\ c.query = ById(x)
    /\ c.projection = None
    /\ c.limit = 0
    /\ c.sort_field = ""
RtStep(c, r) ==
    IF r.status # "ok" THEN RtIdle
    ELSE IF c.op = "create"
         THEN IF Matching(collection, [animal_id |-> c.data.val.animal_id]) = <<>>
              THEN [stage |-> 1, x |-> c.data.val.animal_id, before |-> collection]
              ELSE RtIdle
    ELSE IF rt.stage \in {1, 3} /\ IsReadOf(c, rt.x)
         THEN [rt EXCEPT !.stage = rt.stage + 1]
    ELSE IF rt.stage = 2 /\ c.op = "delete" /\ c.query = ById(rt.x)
         THEN [rt EXCEPT !.stage = 3]
    ELSE RtIdle

\* The state a handler leaves, and what the caller then holds
Returns(c, o) ==
    /\ o.nextId <= MaxId + 1
    /\ Len(o.audits) <= MaxAudits
    /\ collection' = o.collection
    /\ audits' = o.audits
    /\ nextId' = o.nextId
    /\ pc' = "returned"
    /\ call' = c
    /\ result' = o.result
    /\ pre' = [collection |-> collection, audits |-> audits]
    /\ rt' = RtStep(c, o.result)
    /\ UNCHANGED <<client, now>>

\* No handle exists until connect returns one
Init ==
    /\ client = "none"
    /\ collection = <<>>
    /\ audits = <<>>
    /\ now = 0
    /\ nextId = 1
    /\ pc = "idle"
    /\ call = NoCall
    /\ result = NoResult
    /\ pre = NoPre
    /\ rt = RtIdle

\* What the caller holds after connect or close returned or raised
Lifecycle(c, o) ==
    /\ client' = o.client
    /\ pc' = "returned"
    /\ call' = c
    /\ result' = o.result
    /\ pre' = [collection |-> collection, audits |-> audits]
    /\ rt' = RtIdle
    /\ UNCHANGED <<collection, audits, now, nextId>>

Connect ==
    /\ pc = "idle"
    /\ client = "none"
    /\ \E ensure_indexes \in BOOLEAN, fault \in ConnectFaults,
          index_fault \in 0..Len(Indexes) :
          Lifecycle([op |-> "connect", ensure_indexes |-> ensure_indexes,
                     fault |-> fault, index_fault |-> index_fault],
                    connect(ensure_indexes, fault, index_fault))

Close ==
    /\ pc = "idle"
    /\ client = "connected"
    /\ \E fault \in BOOLEAN : Lifecycle([op |-> "close"], close(fault))

Create ==
    /\ pc = "idle"
    /\ client = "connected"
    /\ \E data \in DataInputs, actor \in Actors, fault \in Faults :
          Returns([op |-> "create", data |-> data, actor |-> actor],
                  create(data, actor, fault))

Read ==
    /\ pc = "idle"
    /\ client = "connected"
    /\ \E query \in QueryInputs \cup {None}, projection \in ProjectionInputs,
          limit \in LimitInputs, srt \in SortInputs, fault \in {"none", "db"} :
          \E o \in read(query, projection, limit, srt.field, srt.order, fault) :
              Returns([op |-> "read", query |-> query, projection |-> projection,
                       limit |-> limit, sort_field |-> srt.field, sort_order |-> srt.order],
                      o)

Update ==
    /\ pc = "idle"
    /\ client = "connected"
    /\ \E query \in QueryInputs, new_values \in NewValuesInputs, upsert \in BOOLEAN,
          actor \in Actors, fault \in Faults :
          Returns([op |-> "update", query |-> query, new_values |-> new_values,
                   upsert |-> upsert, actor |-> actor],
                  update(query, new_values, upsert, actor, fault))

Delete ==
    /\ pc = "idle"
    /\ client = "connected"
    /\ \E query \in QueryInputs, actor \in Actors, confirm_delete \in BOOLEAN,
          fault \in Faults :
          Returns([op |-> "delete", query |-> query, actor |-> actor,
                   confirm_delete |-> confirm_delete],
                  delete(query, actor, confirm_delete, fault))

Stats ==
    /\ pc = "idle"
    /\ client = "connected"
    /\ \E fault \in {"none", "db"} : \E o \in stats(fault) : Returns([op |-> "stats"], o)

\* The caller takes the result and is ready for its next call
Resume ==
    /\ pc = "returned"
    /\ pc' = "idle"
    /\ call' = NoCall
    /\ result' = NoResult
    /\ pre' = NoPre
    /\ UNCHANGED <<client, collection, audits, now, nextId, rt>>

\* The wall clock advances between calls
Tick ==
    /\ pc = "idle"
    /\ now < MaxClock
    /\ now' = now + 1
    /\ UNCHANGED <<client, collection, audits, nextId, pc, call, result, pre, rt>>

Next == Connect \/ Close \/ Create \/ Read \/ Update \/ Delete \/ Stats \/ Resume \/ Tick

Spec == Init /\ [][Next]_vars

---------------------------------------------------------------------------
(* Properties *)

Returned(op) == pc = "returned" /\ call.op = op
Untouched == collection = pre.collection /\ audits = pre.audits
Logged(msg) == \E i \in 1..Len(result.log) : result.log[i] = msg
Min(a, b) == IF a < b THEN a ELSE b

\* C1: delete({}) with the default confirm_delete=True raises ValueError before any
\* collaborator call: the primary and the audit collection are as before the call.
DeleteAllRefused ==
    (Returned("delete") /\ call.query = Dict(EmptyDict) /\ call.confirm_delete)
        => /\ result.status = "ValueError"
           /\ result.calls = <<>>
           /\ Untouched

DeleteAllRefusedWitness ==
    /\ Returned("delete")
    /\ call.query = Dict(EmptyDict)
    /\ call.confirm_delete
    /\ result.status = "ValueError"
    /\ Len(collection) = 2

\* C2: delete({}, confirm_delete=False) raises no ValueError; when the database
\* answers, it returns deleted equal to the number of records stored before the
\* call and leaves the primary collection empty.
DeleteAllConfirmed ==
    (Returned("delete") /\ call.query = Dict(EmptyDict) /\ ~call.confirm_delete)
        => /\ result.status # "ValueError"
           /\ result.status = "ok" =>
                 /\ result.out.deleted = Len(pre.collection)
                 /\ collection = <<>>

\* C3: create of a non-empty mapping that lacks a required field raises ValueError
\* and writes nothing: no insert, no audit entry.
CreateMissingRejected ==
    (/\ Returned("create")
     /\ call.data.kind = "dict"
     /\ call.data.val # EmptyDict
     /\ Missing(call.data.val, RequiredFields) # {})
        => /\ result.status = "ValueError"
           /\ result.calls = <<>>
           /\ Untouched

CreateMissingRejectedWitness ==
    /\ Returned("create")
    /\ call.data.kind = "dict"
    /\ Cardinality(Missing(call.data.val, RequiredFields)) = 1
    /\ result.status = "ValueError"
    /\ Len(collection) = 1

\* The handler of a mutating call, and a returned call whose audit insert
\* was attempted and appended nothing
Handle(c, fault) ==
    CASE c.op = "create" -> create(c.data, c.actor, fault)
      [] c.op = "update" -> update(c.query, c.new_values, c.upsert, c.actor, fault)
      [] c.op = "delete" -> delete(c.query, c.actor, c.confirm_delete, fault)

AuditFailed ==
    /\ pc = "returned"
    /\ call.op \in {"create", "update", "delete"}
    /\ result.calls # <<>>
    /\ result.calls[Len(result.calls)] = "audits.insert_one"
    /\ Len(audits) = Len(pre.audits)

\* C4: when the primary write of create, update or delete succeeds and the audit
\* insert fails, the call returns the result and leaves the primary collection as
\* it does when the audit insert succeeds; only no audit entry is appended.
AuditFailureHarmless ==
    [][AuditFailed' =>
          /\ result'.status = Handle(call', "none").result.status
          /\ result'.status = "ok"
          /\ result'.out = Handle(call', "none").result.out
          /\ collection' = Handle(call', "none").collection
          /\ audits' = audits]_vars

AuditFailureHarmlessWitness ==
    /\ AuditFailed
    /\ Logged("audit_failed")
    /\ call.op = "delete"
    /\ result.status = "ok"
    /\ result.out.deleted = 1
    /\ Len(collection) = 1

\* new has every field of old, and differs from old only in the named fields
FieldsKept(old, new, named) ==
    /\ DOMAIN old \subseteq DOMAIN new
    /\ \A k \in DOMAIN new :
          k \notin named => (k \in DOMAIN old /\ new[k] = old[k])

\* C5: update(q, nv) merges fields: on a record matching q only the fields named
\* in nv and last_modified_timestamp can change; a record not matching q is left
\* as it was; no record is removed.
UpdateIsPartialMerge ==
    Returned("update") =>
        IF result.status = "ok"
        THEN /\ Len(collection) >= Len(pre.collection)
             /\ \A i \in 1..Len(pre.collection) :
                   IF Matches(pre.collection[i], call.query.val)
                   THEN FieldsKept(pre.collection[i], collection[i],
                                   DOMAIN call.new_values.val \cup {"last_modified_timestamp"})
                   ELSE collection[i] = pre.collection[i]
        ELSE collection = pre.collection

UpdateIsPartialMergeWitness ==
    /\ Returned("update")
    /\ result.status = "ok"
    /\ Len(pre.collection) = 2
    /\ result.out.matched = 1
    /\ result.out.modified = 1
    /\ call.new_values = Dict([animal_id |-> "A2"])

\* C6: whatever the call, a record that is still stored keeps the
\* created_timestamp it had before the call.
CreatedTimestampImmutable ==
    pc = "returned" =>
        \A i \in 1..Len(pre.collection) : \A j \in 1..Len(collection) :
            (/\ collection[j]["_id"] = pre.collection[i]["_id"]
             /\ "created_timestamp" \in DOMAIN pre.collection[i])
                => /\ "created_timestamp" \in DOMAIN collection[j]
                   /\ collection[j].created_timestamp = pre.collection[i].created_timestamp

\* C7: update raises ValueError when query or new_values is empty or no mapping,
\* before any collaborator call: nothing is updated, upserted or audited.
UpdateArgumentsRejected ==
    (/\ Returned("update")
     /\ \/ call.query.kind # "dict"
        \/ call.query.val = EmptyDict
        \/ call.new_values.kind # "dict"
        \/ call.new_values.val = EmptyDict)
        => /\ result.status = "ValueError"
           /\ result.calls = <<>>
           /\ Untouched

UpdateArgumentsRejectedWitness ==
    /\ Returned("update")
    /\ call.query = Dict(EmptyDict)
    /\ call.new_values = Dict([animal_id |-> "A2"])
    /\ call.upsert
    /\ result.status = "ValueError"
    /\ Len(collection) = 2

\* The stored records whose animal_id is not x
Others(x) == SelectSeq(collection, LAMBDA d : ~Matches(d, [animal_id |-> x]))

\* C8: from a state where no record has animal_id x: create of a valid record
\* with animal_id x, then read({animal_id: x}) yields exactly one record and it has
\* animal_id x; then delete({animal_id: x}) returns deleted = 1; then
\* read({animal_id: x}) yields the empty sequence; the other records are throughout
\* those stored before the create.
RoundTrip ==
    (pc = "returned" /\ rt.stage > 0) =>
        /\ Others(rt.x) = rt.before
        /\ rt.stage = 2 =>
              /\ Len(result.out.docs) = 1
              /\ result.out.docs[1].animal_id = rt.x
        /\ rt.stage = 3 => result.out.deleted = 1
        /\ rt.stage = 4 => result.out.docs = <<>>

RoundTripWitness ==
    /\ pc = "returned"
    /\ rt.stage = 4
    /\ call.op = "read"
    /\ Len(rt.before) = 1
    /\ collection = rt.before

\* The filter read passes to find
Filter(query) == IF query.kind = "none" THEN EmptyDict ELSE query.val

\* C9: read returns the stored records that match the filter (None and {} match
\* all): all of them when limit is 0, absent or negative, the first limit of them
\* at most when limit > 0, the empty sequence when none matches.
ReadReturnsMatches ==
    (Returned("read") /\ result.status = "ok") =>
        LET m == Matching(collection, Filter(call.query))
            docs == result.out.docs
        IN  /\ Len(docs) = IF call.limit > 0 THEN Min(call.limit, Len(m)) ELSE Len(m)
            /\ \A i \in 1..Len(docs) : \A j \in 1..Len(docs) :
                  i # j => docs[i]["_id"] # docs[j]["_id"]
            /\ call.projection = None =>
                  \A i \in 1..Len(docs) : \E j \in 1..Len(m) : docs[i] = m[j]

ReadReturnsMatchesWitness ==
    /\ Returned("read")
    /\ result.status = "ok"
    /\ call.query = ById("A1")
    /\ call.projection = None
    /\ call.limit = 1
    /\ Len(Matching(collection, [animal_id |-> "A1"])) = 2
    /\ Len(result.out.docs) = 1

\* C10: read, whatever its arguments and whether it returns or raises, leaves the
\* primary collection as it was and appends no audit entry.
ReadChangesNothing == Returned("read") => Untouched

ReadChangesNothingWitness ==
    /\ Returned("read")
    /\ result.status = "ok"
    /\ Len(result.out.docs) = 2
    /\ Len(audits) = 1

\* The audit action and the primary write of each mutating operation
Mutating == {"create", "update", "delete"}
AuditAction(op) ==
    CASE op = "create" -> "CREATE"
      [] op = "update" -> "UPDATE"
      [] op = "delete" -> "DELETE"
PrimaryWrite(op) ==
    CASE op = "create" -> "insert_one"
      [] op = "update" -> "update_many"
      [] op = "delete" -> "delete_many"
AuditAttempts ==
    Cardinality({i \in 1..Len(result.calls) : result.calls[i] = "audits.insert_one"})

OnHandle == {"create", "read", "update", "delete", "stats", "close"}

\* C12: connect pings right after creating the client and before any other
\* collaborator call. When the ping fails connect raises, no handle exists and no
\* index creation was attempted; when the ping succeeds and index creation fails
\* under ensure_indexes=True connect still returns a handle. Operations are only
\* ever issued on a handle that a connect returned.
ConnectPingsFirst ==
    /\ (pc = "returned" /\ call.op \in OnHandle \ {"close"}) => client = "connected"
    /\ Returned("connect") =>
          /\ result.calls[1] = "MongoClient"
          /\ Len(result.calls) >= 2 => result.calls[2] = "ping"
          /\ call.fault = "ping" =>
                /\ result.status # "ok"
                /\ client = "none"
                /\ result.calls = <<"MongoClient", "ping">>
                /\ Untouched
          /\ (call.fault = "none" /\ call.ensure_indexes /\ call.index_fault > 0) =>
                /\ result.status = "ok"
                /\ client = "connected"
                /\ Logged("index_creation_failed")
          /\ result.status = "ok" <=> client = "connected"

ConnectPingsFirstWitness ==
    /\ Returned("connect")
    /\ call.fault = "ping"
    /\ call.ensure_indexes
    /\ result.status = "PyMongoError"
    /\ client = "none"
    /\ Len(collection) = 2

\* The records a call added: those whose _id no record had when the call started
Added ==
    {i \in 1..Len(collection) :
        \A j \in 1..Len(pre.collection) : pre.collection[j]["_id"] # collection[i]["_id"]}

\* C13: every record added to the primary collection, by create or by update with
\* upsert=True when nothing matches, contains animal_id, animal_type and breed at
\* the moment it is added.
AddedRecordsHaveRequiredFields ==
    pc = "returned" =>
        \A i \in Added : RequiredFields \subseteq DOMAIN collection[i]

\* The created_timestamp values of the stored records
CreatedTimestamps ==
    {collection[i].created_timestamp :
        i \in {j \in 1..Len(collection) : "created_timestamp" \in DOMAIN collection[j]}}

\* C14: stats returns as latest_created_timestamp the greatest created_timestamp
\* among the stored records, and None exactly when the primary collection is
\* empty; stats changes neither the primary nor the audit collection.
StatsLatestCreated ==
    Returned("stats") =>
        /\ Untouched
        /\ result.status = "ok" =>
              LET latest == result.out.latest_created_timestamp
              IN  /\ ~latest.has <=> collection = <<>>
                  /\ latest.has =>
                        /\ latest.ts \in CreatedTimestamps
                        /\ \A t \in CreatedTimestamps : t <= latest.ts

====
